---- MODULE Spec2Model ----
(***************************************************************************)
(* Dispatch policies of the Iluvatar worker: the Mice adaptive threshold   *)
(* controller (dispatching/mice.rs) and the WeightedRandom baseline        *)
(* (dispatching/weighted_random.rs).  Rolls and probabilities of the       *)
(* baseline are plain integers in hundredths.                              *)
(*                                                                         *)
(* Numbers.  An f64 is a record: [k |-> "fin", v |-> n] is the finite      *)
(* value n/10 (fixed point, one unit = 0.1), [k |-> "nan"] is NaN and      *)
(* [k |-> "inf", v |-> 1 / -1] are the two infinities.  A multiplication   *)
(* by a blend weight rounds its result to the nearest unit, as every f64   *)
(* operation rounds to the nearest representable value.  The fields of     *)
(* MiceState (tau, gpu_work, cpu_work) are always finite and are kept as   *)
(* plain integers in the same unit; the clock counts ticks of TickLen units.*)
(* The utilisations of an epoch close are exact rationals <<n, d>>; the    *)
(* close of a long idle epoch is carried in f64 with its 53-bit           *)
(* significand, where the rounding of a sum decides the outcome.          *)
(***************************************************************************)
EXTENDS Integers, Naturals, Sequences, FiniteSets, TLC

\* ------------------------------------------------------------------ bounds
\* Last reading of the clock, in ticks.
MaxClock == 2
\* Length of one tick of the clock, in units of 0.1 s.
TickLen == 2
\* Epoch length of the model (Mice::new sets m: 100; the model closes its
\* epochs after a shorter run of decisions).
m == 2
\* No call starts when it could raise count above this.
MaxCount == 3
\* Number of times the QueueMap changes in a run.
MaxSwitch == 1

\* ------------------------------------------------------------- f64 values
F(n) == [k |-> "fin", v |-> n]
NaN == [k |-> "nan", v |-> 0]
PInf == [k |-> "inf", v |-> 1]
NInf == [k |-> "inf", v |-> -1]

\* f64::is_finite
is_finite(x) == x.k = "fin"

\* x > 0.0 (false for NaN)
gt0(x) == (x.k = "fin" /\ x.v > 0) \/ (x.k = "inf" /\ x.v > 0)

\* x < y on f64 (false when either is NaN)
flt(x, y) ==
    /\ x.k # "nan" /\ y.k # "nan"
    /\ IF x.k = "fin" /\ y.k = "fin" THEN x.v < y.v
       ELSE IF x.k = "inf" /\ y.k = "inf" THEN x.v < y.v
       ELSE IF x.k = "inf" THEN x.v < 0
       ELSE y.v > 0

\* f64::max: the other operand when one is NaN
fmax(x, y) ==
    IF x.k = "nan" THEN y
    ELSE IF y.k = "nan" THEN x
    ELSE IF flt(x, y) THEN y ELSE x

\* x + y on f64
fadd(x, y) ==
    IF x.k = "nan" \/ y.k = "nan" THEN NaN
    ELSE IF x.k = "inf" /\ y.k = "inf" THEN (IF x.v = y.v THEN x ELSE NaN)
    ELSE IF x.k = "inf" THEN x
    ELSE IF y.k = "inf" THEN y
    ELSE F(x.v + y.v)

\* -x on f64
fneg(x) == IF x.k = "nan" THEN NaN ELSE [k |-> x.k, v |-> 0 - x.v]

\* x - y on f64
fsub(x, y) == fadd(x, fneg(y))

\* n / 10 rounded to the nearest integer, halves away from zero
round10(n) == IF n >= 0 THEN (n + 5) \div 10 ELSE 0 - ((5 - n) \div 10)

\* w * x on f64 for a finite weight w > 0 given in tenths (w = 7 is 0.7)
fscale(w, x) == IF x.k = "fin" THEN F(round10(w * x.v)) ELSE x

\* ---------------------------------------------------------------- rationals
Abs(n) == IF n < 0 THEN 0 - n ELSE n

RECURSIVE GCD(_, _)
GCD(a, b) == IF b = 0 THEN a ELSE GCD(b, a % b)

LCM(a, b) == (a \div GCD(a, b)) * b

\* <<n, d>> in lowest terms, d > 0
RNorm(n, d) == LET g == GCD(Abs(n), d) IN <<n \div g, d \div g>>

RAdd(x, y) ==
    LET l == LCM(x[2], y[2])
    IN  RNorm(x[1] * (l \div x[2]) + y[1] * (l \div y[2]), l)

RSub(x, y) == RAdd(x, <<0 - y[1], y[2]>>)

RMul(x, y) == RNorm(x[1] * y[1], x[2] * y[2])

RLt(x, y) ==
    LET l == LCM(x[2], y[2])
    IN  x[1] * (l \div x[2]) < y[1] * (l \div y[2])

RMax(x, y) == IF RLt(x, y) THEN y ELSE x

\* f64::powi
RECURSIVE powi(_, _)
powi(x, n) == IF n = 0 THEN <<1, 1>> ELSE RMul(x, powi(x, n - 1))

\* ------------------------------------------------------- program constants
\* MiceState.tau at construction: 10.0
tau0 == 100
\* Mice.epsilon: 0.1
epsilon == 1
\* Mice.alpha: 0.8
alpha == <<4, 5>>
\* get_gpu_est: alpha = 0.1, beta = 0.7, k = 1.0 - (beta + alpha)
est_alpha == 1
est_beta == 7
est_k == 10 - (est_beta + est_alpha)
\* job_size_est: 1.0, the conservative fallback
fallback == 10
\* the floor of dt: 1e-6 seconds
dt_floor == <<1, 100000>>
\* dispatching::NO_ESTIMATE
NO_ESTIMATE == F(0)
\* types::Compute
Compute == {"GPU", "CPU"}

\* ------------------------------------------------------------- estimator
\* the repair that keeps a negative raw estimate
repair_unfloored(prev_raw, mqfq_est) ==
    IF is_finite(prev_raw) /\ gt0(prev_raw) THEN prev_raw ELSE mqfq_est

\* get_gpu_est, the repair of one prior statistic
repair(prev_raw, mqfq_est) ==
    IF is_finite(prev_raw) /\ gt0(prev_raw) THEN prev_raw
    ELSE fmax(mqfq_est, F(0))

\* get_gpu_est, from the paired read to the returned (xhat, z)
get_gpu_est(prev_est_raw, prev_e2e_raw, mqfq_est) ==
    LET prev_est == repair(prev_est_raw, mqfq_est)
        prev_e2e == repair(prev_e2e_raw, mqfq_est)
        obs == IF is_finite(mqfq_est) /\ gt0(mqfq_est) THEN mqfq_est ELSE prev_est
        z == fsub(prev_e2e, prev_est)
        xhat == fadd(fadd(fscale(est_alpha, prev_est), fscale(est_beta, obs)),
                     fscale(est_k, z))
    IN  [prev_est |-> prev_est, prev_e2e |-> prev_e2e, obs |-> obs,
         z |-> z, xhat |-> xhat]

\* WorkerCharMap::update(fqdn, Chars::EstGpu, xhat)
cmap_update(cm, chr, val) == [cm EXCEPT ![chr] = val]

\* the job size that accepts any finite estimate
job_size_est_unsigned(cm, filtered_gpu_est) ==
    IF is_finite(filtered_gpu_est) THEN filtered_gpu_est
    ELSE LET est == cm["GpuExecTime"]
         IN  IF is_finite(est) /\ gt0(est) THEN est ELSE F(fallback)

\* job_size_est
job_size_est(cm, filtered_gpu_est) ==
    IF is_finite(filtered_gpu_est) /\ gt0(filtered_gpu_est) THEN filtered_gpu_est
    ELSE LET est == cm["GpuExecTime"]
         IN  IF is_finite(est) /\ gt0(est) THEN est ELSE F(fallback)

\* --------------------------------------------------------- epoch close
\* dt = (now - last_update).as_seconds_f64().max(1e-6)
epoch_dt(now, last) == RMax(<<TickLen * (now - last), 1>>, dt_floor)

\* target_gpu = rho + alpha * rho.powi(4) * (1.0 - rho)
target_gpu(rho) == RAdd(rho, RMul(RMul(alpha, powi(rho, 4)), RSub(<<1, 1>>, rho)))

\* the close that steps the wrong way
adjust_tau_inverted(t_old, rho_gpu, target) ==
    IF RLt(rho_gpu, target)
    THEN (IF t_old - epsilon > 0 THEN t_old - epsilon ELSE 0)
    ELSE t_old + epsilon

\* the close without the floor at zero
adjust_tau_unclamped(t_old, rho_gpu, target) ==
    IF RLt(rho_gpu, target) THEN t_old + epsilon ELSE t_old - epsilon

\* the threshold after the close
adjust_tau(t_old, rho_gpu, target) ==
    IF RLt(rho_gpu, target) THEN t_old + epsilon
    ELSE IF t_old - epsilon > 0 THEN t_old - epsilon ELSE 0

\* ------------------------------------------- the close in f64 arithmetic
\* The rationals above carry the close where rounding decides nothing. An f64
\* keeps MantBits significant bits, and a sum of two operands far apart in
\* magnitude is rounded back to the larger one. The operators below carry
\* that: a non-negative f64 is [e, n, d], the value (n / d) * 2^e with
\* 1 <= n / d < 2 in lowest terms, and zero is [e |-> 0, n |-> 0, d |-> 1].
\* Products and quotients keep the exact significand n / d; their rounding
\* moves it by less than 2^(1 - MantBits), which moves no value of the loads
\* below across a power of two.
MantBits == 53

RECURSIVE bin(_, _, _)
bin(e, n, d) ==
    IF n = 0 THEN [e |-> 0, n |-> 0, d |-> 1]
    ELSE IF n >= 2 * d THEN bin(e + 1, n, 2 * d)
    ELSE IF n < d THEN bin(e - 1, 2 * n, d)
    ELSE LET g == GCD(n, d) IN [e |-> e, n |-> n \div g, d |-> d \div g]

\* x * y
bmul(x, y) == bin(x.e + y.e, x.n * y.n, x.d * y.d)

\* x / y, y > 0
bdiv(x, y) == bin(x.e - y.e, x.n * y.d, x.d * y.n)

\* x < y
blt(x, y) ==
    IF y.n = 0 THEN FALSE
    ELSE IF x.n = 0 THEN TRUE
    ELSE IF x.e # y.e THEN x.e < y.e
    ELSE x.n * y.d < y.n * x.d

\* x + y for operands of nearby magnitude, whose sum is exact
badd(x, y) ==
    IF x.n = 0 THEN y
    ELSE IF y.n = 0 THEN x
    ELSE LET hi == IF x.e >= y.e THEN x ELSE y
             lo == IF x.e >= y.e THEN y ELSE x
         IN  bin(lo.e, hi.n * 2^(hi.e - lo.e) * lo.d + lo.n * hi.d, hi.d * lo.d)

\* 1.0 - x for 0 < x < 1: exact while x is no smaller than 2^(-MantBits)
bone_minus(x) == bin(0, x.d * 2^(0 - x.e) - x.n, x.d * 2^(0 - x.e))

\* f64::powi
RECURSIVE bpowi(_, _)
bpowi(x, n) == IF n = 0 THEN bin(0, 1, 1) ELSE bmul(x, bpowi(x, n - 1))

\* is x + y > x after the sum is rounded to MantBits bits, for x a power of
\* two: y is more than half a unit in the last place of x (a tie rounds to the
\* even significand, which is that of x)
badd_grows(x, y) ==
    /\ y.n # 0
    /\ \/ y.e > x.e - MantBits
       \/ y.e = x.e - MantBits /\ y.n > y.d

\* rho_gpu < target_gpu for 0 < rho < 1, target_gpu = rho + delta with
\* delta = alpha * rho.powi(4) * (1.0 - rho) > 0 and rho_gpu <= rho
below_target_f64(rho_gpu, rho) ==
    LET delta == bmul(bmul(bin(0, alpha[1], alpha[2]), bpowi(rho, 4)),
                      bone_minus(rho))
    IN  blt(rho_gpu, rho) \/ (rho_gpu = rho /\ badd_grows(rho, delta))

\* the threshold after a close whose dt is 2^dt_exp seconds and whose load
\* is below 1, the work given in tenths of a second
adjust_tau_f64(t_old, g_work, c_work, dt_exp) ==
    LET dt == bin(dt_exp, 1, 1)
        rho_gpu == bdiv(bin(0, g_work, 10), dt)
        rho_cpu == bdiv(bin(0, c_work, 10), dt)
        rho == badd(rho_gpu, rho_cpu)
    IN  IF below_target_f64(rho_gpu, rho) THEN t_old + epsilon
        ELSE IF t_old - epsilon > 0 THEN t_old - epsilon ELSE 0

\* ------------------------------------------------------------------ state
VARIABLES
    tau,          \* MiceState.tau
    gpu_work,     \* MiceState.gpu_work
    cpu_work,     \* MiceState.cpu_work
    count,        \* MiceState.count
    last_update,  \* MiceState.last_update
    lock,         \* holder of Mice.state (0: free)
    que_map,      \* QueueMap: is there an entry for the device
    que_est,      \* what the queue of the device reports in est_completion_time
    switches,     \* number of changes of the QueueMap so far
    cmap,         \* WorkerCharMap: the averages of the one function
    clock,        \* the last reading the global clock handed out
    pc,           \* position of each thread in choose
    loc,          \* the locals of each thread's call
    epoch_log,    \* the last "MICE_EPOCH: threshold_update" event
    decided,      \* "MICE_DECIDE: inputs" events since the last MICE_EPOCH event
    routed,       \* the job_size of those events, summed by the device they route to
    wr_config,    \* InvocationConfig.weighted_random_config: <<>> or <<p>>
    dispatch_state, \* WeightedRandom.dispatch_state: the entry of each function
    wr_lock,      \* holder of the write lock of dispatch_state (0: free)
    wr_pc,        \* position of each thread in WeightedRandom::choose
    wr_loc,       \* the locals of each thread's call of WeightedRandom::choose
    wr_last,      \* per function: the call that took the write lock last
    est_orders,   \* what EstGpu may hold had every get_gpu_est run as one step
                  \* (followed from the start of a run, or empty: not followed)
    idle_exp,     \* the close of an idle epoch: dt is 2^idle_exp seconds
    policy,       \* the result of Mice::new and the constants it fixed
    time_src      \* does get_global_clock hand out the clock

wr_vars == <<wr_config, dispatch_state, wr_lock, wr_pc, wr_loc, wr_last>>

\* what no step of choose writes
other_vars == <<wr_vars, idle_exp, policy, time_src>>

vars == <<tau, gpu_work, cpu_work, count, last_update, lock, que_map, que_est,
          switches, cmap, clock, pc, loc, epoch_log, decided, routed, est_orders,
          other_vars>>

mice_state == <<tau, gpu_work, cpu_work, count, last_update>>

\* everything of the Mice policy but the clock it shares
mice_vars == <<mice_state, lock, que_map, que_est, switches, cmap, pc, loc,
               epoch_log, decided, routed, est_orders, idle_exp, policy, time_src>>

\* the threads that call choose concurrently
Threads == {1, 2}

\* what the queues report in est_completion_time: (estimate, load)
GpuReport == [est |-> F(3), load |-> F(6)]
CpuReport == [est |-> F(7), load |-> F(5)]

\* the averages of a function that has run on the GPU before
UsedStore == [EstGpu |-> F(0), E2EGpu |-> F(4), GpuExecTime |-> F(2)]
\* the averages of a function the store has no record of
EmptyStore == [EstGpu |-> F(0), E2EGpu |-> F(0), GpuExecTime |-> F(0)]

\* thresholds a controller holds after a run of overloaded epochs
WarmTaus == {0, 3}

NoRet == [dev |-> "none", load |-> F(0), est |-> F(0)]

LocInit ==
    [gpu_est |-> F(0), gpu_load |-> F(0), cpu_est |-> F(0), cpu_load |-> F(0),
     gpu_missing |-> FALSE, cpu_missing |-> FALSE,
     prev_est_raw |-> F(0), prev_e2e_raw |-> F(0), xhat |-> F(0), z |-> F(0),
     size |-> F(0), now |-> 0, tau_in |-> 0,
     gpu_available |-> FALSE, use_gpu |-> FALSE, closed |-> FALSE,
     ret |-> NoRet]

NoWork == [gpu |-> 0, cpu |-> 0]

\* Mice::new: m: 100
m_new == 100

\* no policy: Mice::new has not run, or it has returned the error
NoPolicy == [res |-> "none", m |-> 0, epsilon |-> 0, alpha |-> <<0, 1>>]

\* Ok(Arc::new(Self { .. })): the policy and the constants it is built with
Built == [res |-> "Ok", m |-> m_new, epsilon |-> epsilon, alpha |-> alpha]

NoEpoch ==
    [tid |-> 0, dt |-> <<0, 1>>, rho_total |-> <<0, 1>>, rho_gpu |-> <<0, 1>>,
     target_gpu |-> <<0, 1>>, tau_old |-> 0, tau_new |-> 0,
     gpu_work |-> 0, cpu_work |-> 0, decided |-> 0]

\* the functions registered with the worker
Fns == {"f", "g"}

\* a function no call has chosen a device for
NoEntry == [dev |-> "none", t |-> 0]

WRLocInit ==
    [fqdn |-> "f", p |-> 0, roll |-> 0, selected |-> "none", t |-> 0,
     ret |-> NoRet]

NoCall == [tid |-> 0, dev |-> "none", t |-> 0]

\* WeightedRandom::new over a configuration
WRInit(configs) ==
    /\ wr_config \in configs
    /\ dispatch_state = [f \in Fns |-> NoEntry]
    /\ wr_lock = 0
    /\ wr_pc = [t \in Threads |-> "idle"]
    /\ wr_loc = [t \in Threads |-> WRLocInit]
    /\ wr_last = [f \in Fns |-> NoCall]

\* Mice::new, with the store and the queue map the policy is built over
MiceInit(taus, que_maps, gpu_reports, stores) ==
    /\ tau \in taus
    /\ gpu_work = 0
    /\ cpu_work = 0
    /\ count = 0
    /\ clock = 0
    /\ last_update = clock
    /\ lock = 0
    /\ que_map \in que_maps
    /\ \E g \in gpu_reports : que_est = [GPU |-> g, CPU |-> CpuReport]
    /\ switches = 0
    /\ cmap \in stores
    /\ pc = [t \in Threads |-> "idle"]
    /\ loc = [t \in Threads |-> LocInit]
    /\ epoch_log = NoEpoch
    /\ decided = 0
    /\ routed = NoWork
    /\ idle_exp = 0
    /\ policy = Built
    /\ time_src = TRUE

\* a worker that dispatches with Mice: the baseline's configuration is unset
InitWith(taus, que_maps, gpu_reports, stores) ==
    /\ MiceInit(taus, que_maps, gpu_reports, stores)
    /\ est_orders = {}
    /\ WRInit({<<>>})

AllQueues == [d \in Compute |-> TRUE]

Init == InitWith({tau0}, {AllQueues}, {GpuReport}, {UsedStore})

\* ------------------------------------------------------------ environment
\* the device classes whose queue comes and goes while the policy runs
Switched == {"GPU"}

\* a device class becomes unavailable and its entry leaves the QueueMap, or it
\* becomes available again and its entry is back
SwitchQueue(d) ==
    /\ switches < MaxSwitch
    /\ switches' = switches + 1
    /\ que_map' = [que_map EXCEPT ![d] = ~que_map[d]]
    /\ UNCHANGED <<mice_state, lock, que_est, cmap, clock, pc, loc, epoch_log,
                   decided, routed, other_vars, est_orders>>

\* ------------------------------------------------------------ Mice::choose
InFlight == Cardinality({u \in Threads : pc[u] # "idle"})

\* the lookup that reports a queue's figures whether or not it has an entry
queue_figures_unguarded(present, report) == report

\* que_map.get(&device) ... est_completion_time: the queue's (estimate, load),
\* or the sentinel for both when the device has no entry
queue_figures(present, report) ==
    IF present THEN report ELSE [est |-> NO_ESTIMATE, load |-> NO_ESTIMATE]

\* choose is entered: (gpu_est, gpu_load) of the GPU queue
GpuQueue(t) ==
    /\ policy.res = "Ok"
    /\ pc[t] = "idle"
    /\ count + InFlight < MaxCount
    /\ LET r == queue_figures(que_map["GPU"], que_est["GPU"])
       IN  loc' = [loc EXCEPT ![t].gpu_est = r.est, ![t].gpu_load = r.load,
                              ![t].gpu_missing = ~que_map["GPU"]]
    /\ pc' = [pc EXCEPT ![t] = "cpu_q"]
    /\ UNCHANGED <<mice_state, lock, que_map, que_est, switches, cmap, clock, epoch_log, decided, routed, other_vars, est_orders>>

\* (cpu_est, cpu_load) of the CPU queue
CpuQueue(t) ==
    /\ pc[t] = "cpu_q"
    /\ LET r == queue_figures(que_map["CPU"], que_est["CPU"])
       IN  loc' = [loc EXCEPT ![t].cpu_est = r.est, ![t].cpu_load = r.load,
                              ![t].cpu_missing = ~que_map["CPU"]]
    /\ pc' = [pc EXCEPT ![t] = "est_get"]
    /\ UNCHANGED <<mice_state, lock, que_map, que_est, switches, cmap, clock, epoch_log, decided, routed, other_vars, est_orders>>

\* get_gpu_est: the paired read cmap.get_2(EstGpu, E2EGpu)
EstGet(t) ==
    /\ pc[t] = "est_get"
    /\ loc' = [loc EXCEPT ![t].prev_est_raw = cmap["EstGpu"],
                          ![t].prev_e2e_raw = cmap["E2EGpu"]]
    /\ pc' = [pc EXCEPT ![t] = "est_upd"]
    /\ UNCHANGED <<mice_state, lock, que_map, que_est, switches, cmap, clock, epoch_log, decided, routed, other_vars, est_orders>>

\* the calls between their paired read and their write
Pending == {u \in Threads : pc[u] = "est_upd"}

\* get_gpu_est of call u run as one step on a stored EstGpu of c.v
est_step(c, u) ==
    [v |-> get_gpu_est(c.v, cmap["E2EGpu"], loc[u].gpu_est).xhat,
     done |-> c.done \cup {u}]

\* the orders L, and each of them followed by one more pending call
est_more(L) ==
    L \cup {est_step(x[1], x[2]) :
              x \in {y \in L \X Pending : y[2] \notin y[1].done}}

\* the orders L followed by any run of pending calls
RECURSIVE est_closed(_, _)
est_closed(L, n) == IF n = 0 THEN L ELSE est_closed(est_more(L), n - 1)

\* the orders in which call t has run: t returns and is pending no more
est_returned(L, t) ==
    {[v |-> c.v, done |-> c.done \ {t}] :
       c \in {d \in est_closed(L, Cardinality(Threads)) : t \in d.done}}

\* get_gpu_est: the blend and cmap.update(EstGpu, xhat); then
\* size = job_size_est(fqdn, gpu_est_exec)
EstUpdate(t) ==
    /\ pc[t] = "est_upd"
    /\ LET r == get_gpu_est(loc[t].prev_est_raw, loc[t].prev_e2e_raw, loc[t].gpu_est)
           cm == cmap_update(cmap, "EstGpu", r.xhat)
       IN  /\ cmap' = cm
           /\ loc' = [loc EXCEPT ![t].xhat = r.xhat, ![t].z = r.z,
                                 ![t].size = job_size_est(cm, r.xhat)]
    /\ est_orders' = est_returned(est_orders, t)
    /\ pc' = [pc EXCEPT ![t] = "now"]
    /\ UNCHANGED <<mice_state, lock, que_map, que_est, switches, clock, epoch_log,
                   decided, routed, other_vars>>

\* now = clock.now(): the clock is monotonic, its reading c is the last one
\* handed out or a later one; the estimator's values are not used from here on
Now(t) ==
    /\ pc[t] = "now"
    /\ \E c \in clock .. MaxClock :
         /\ clock' = c
         /\ loc' = [loc EXCEPT ![t].now = c,
                               ![t].prev_est_raw = F(0), ![t].prev_e2e_raw = F(0),
                               ![t].xhat = F(0), ![t].z = F(0)]
    /\ pc' = [pc EXCEPT ![t] = "lock"]
    /\ UNCHANGED <<mice_state, lock, que_map, que_est, switches, cmap, epoch_log, decided, routed, other_vars, est_orders>>

\* the counters with the job added to the counter of the other device
work_added_swapped(use_gpu, g, c, size) ==
    IF use_gpu THEN [gpu |-> g, cpu |-> c + size] ELSE [gpu |-> g + size, cpu |-> c]

\* if use_gpu { gpu_work += size } else { cpu_work += size }
work_added(use_gpu, g, c, size) ==
    IF use_gpu THEN [gpu |-> g + size, cpu |-> c] ELSE [gpu |-> g, cpu |-> c + size]

\* the routing that admits a job of size tau
use_gpu_inclusive(gpu_available, size, t_now) == gpu_available /\ size.v <= t_now

\* the routing that does not look at the availability of the GPU queue
use_gpu_unchecked(gpu_available, size, t_now) == size.v < t_now

\* use_gpu = gpu_available && size < st.tau
use_gpu_of(gpu_available, size, t_now) == gpu_available /\ size.v < t_now

\* a lock that admits a second holder
lock_always_free(l) == TRUE

\* the state lock is free
lock_free(l) == l = 0

\* st = self.state.lock(); the availability check, the routing decision and
\* the MICE_DECIDE inputs event
Lock(t) ==
    /\ pc[t] = "lock"
    /\ lock_free(lock)
    /\ lock' = t
    /\ loc' = [loc EXCEPT ![t].gpu_available = que_map["GPU"],
                          ![t].use_gpu = use_gpu_of(que_map["GPU"], loc[t].size, tau),
                          ![t].tau_in = tau]
    /\ decided' = decided + 1
    /\ routed' = IF que_map["GPU"] /\ loc[t].size.v < tau
                 THEN [routed EXCEPT !.gpu = @ + loc[t].size.v]
                 ELSE [routed EXCEPT !.cpu = @ + loc[t].size.v]
    /\ pc' = [pc EXCEPT ![t] = "acc"]
    /\ UNCHANGED <<mice_state, que_map, que_est, switches, cmap, clock, epoch_log, other_vars, est_orders>>

\* the per-epoch workload counters and count
Accumulate(t) ==
    /\ pc[t] = "acc"
    /\ LET w == work_added(loc[t].use_gpu, gpu_work, cpu_work, loc[t].size.v)
       IN  gpu_work' = w.gpu /\ cpu_work' = w.cpu
    /\ count' = count + 1
    /\ pc' = [pc EXCEPT ![t] = "epoch"]
    /\ UNCHANGED <<tau, last_update, lock, que_map, que_est, switches, cmap, clock,
                   loc, epoch_log, decided, routed, other_vars, est_orders>>

\* the close that comes one decision early
epoch_ends_early(cnt, last, now) == cnt + 1 >= m /\ last < now

\* the close that waits for one decision more
epoch_ends_late(cnt, last, now) == cnt > m /\ last < now

\* if st.count >= self.m && st.last_update < now
epoch_ends(cnt, last, now) == cnt >= m /\ last < now

\* the close that does not stamp the new epoch with the caller's now
epoch_reset_unstamped(cnt, now) ==
    [gpu_work |-> 0, cpu_work |-> 0, count |-> 0, last_update |-> 0]

\* the close that forgets to reset count
epoch_reset_keeps_count(cnt, now) ==
    [gpu_work |-> 0, cpu_work |-> 0, count |-> cnt, last_update |-> now]

\* the accumulators after the close
epoch_reset(cnt, now) ==
    [gpu_work |-> 0, cpu_work |-> 0, count |-> 0, last_update |-> now]

\* the call that goes on holding the guard
drop_st_kept(holder) == holder

\* drop(st): the guard of holder goes, the Mutex is free
drop_st(holder) == 0

\* (dev, load, est) of the chosen device
decision(l) ==
    IF l.use_gpu
    THEN [dev |-> "GPU", load |-> l.gpu_load, est |-> l.gpu_est]
    ELSE [dev |-> "CPU", load |-> l.cpu_load, est |-> l.cpu_est]

\* the end of the epoch: tau is adjusted, the MICE_EPOCH event is emitted and
\* the accumulators are reset; drop(st); the triple is selected
EpochClose(t) ==
    /\ pc[t] = "epoch"
    /\ epoch_ends(count, last_update, loc[t].now)
    /\ LET dt == epoch_dt(loc[t].now, last_update)
           rho_gpu == RMul(<<gpu_work, 1>>, <<dt[2], dt[1]>>)
           rho_cpu == RMul(<<cpu_work, 1>>, <<dt[2], dt[1]>>)
           rho == RAdd(rho_gpu, rho_cpu)
           target == target_gpu(rho)
           tau_new == adjust_tau(tau, rho_gpu, target)
           r == epoch_reset(count, loc[t].now)
       IN  /\ tau' = tau_new
           /\ epoch_log' = [tid |-> t, dt |-> dt, rho_total |-> rho,
                            rho_gpu |-> rho_gpu, target_gpu |-> target,
                            tau_old |-> tau, tau_new |-> tau_new,
                            gpu_work |-> gpu_work, cpu_work |-> cpu_work,
                            decided |-> decided]
           /\ gpu_work' = r.gpu_work
           /\ cpu_work' = r.cpu_work
           /\ count' = r.count
           /\ last_update' = r.last_update
    /\ decided' = 0
    /\ routed' = NoWork
    /\ loc' = [loc EXCEPT ![t].closed = TRUE, ![t].now = 0,
                          ![t].ret = decision(loc[t])]
    /\ lock' = drop_st(t)
    /\ pc' = [pc EXCEPT ![t] = "log"]
    /\ UNCHANGED <<que_map, que_est, switches, cmap, clock, other_vars, est_orders>>

\* the epoch goes on; drop(st); the triple is selected
EpochSkip(t) ==
    /\ pc[t] = "epoch"
    /\ ~epoch_ends(count, last_update, loc[t].now)
    /\ loc' = [loc EXCEPT ![t].now = 0, ![t].ret = decision(loc[t])]
    /\ lock' = drop_st(t)
    /\ pc' = [pc EXCEPT ![t] = "log"]
    /\ UNCHANGED <<mice_state, que_map, que_est, switches, cmap, clock, epoch_log, decided, routed, other_vars, est_orders>>

\* the MICE_DECIDE output event reads tau_current = self.state.lock().tau;
\* choose returns (dev, load, est)
LogOutput(t) ==
    /\ pc[t] = "log"
    /\ lock_free(lock)
    /\ pc' = [pc EXCEPT ![t] = "idle"]
    /\ loc' = [loc EXCEPT ![t] = LocInit]
    /\ epoch_log' = IF epoch_log.tid = t THEN NoEpoch ELSE epoch_log
    /\ UNCHANGED <<mice_state, lock, que_map, que_est, switches, cmap, clock, decided, routed, other_vars, est_orders>>

choose(t) ==
    \/ GpuQueue(t) \/ CpuQueue(t) \/ EstGet(t) \/ EstUpdate(t) \/ Now(t)
    \/ Lock(t) \/ Accumulate(t) \/ EpochClose(t) \/ EpochSkip(t) \/ LogOutput(t)

Next ==
    \/ \E d \in Switched : SwitchQueue(d)
    \/ \E t \in Threads : choose(t)

Spec == Init /\ [][Next]_vars

\* the step EpochClose(t) by its guard and the position it leaves
Closes(t) ==
    /\ pc[t] = "epoch"
    /\ epoch_ends(count, last_update, loc[t].now)
    /\ pc' = [pc EXCEPT ![t] = "log"]

\* a call that has started runs on: every step of it but the two that take
\* the Mutex is taken once it stays possible
Runs(t) ==
    \/ CpuQueue(t) \/ EstGet(t) \/ EstUpdate(t) \/ Now(t)
    \/ Accumulate(t) \/ Closes(t) \/ EpochSkip(t)

\* the Mutex is handed over fairly: a call that finds it free again and again
\* takes it
FairHandoff(t) == SF_pc(Lock(t)) /\ SF_pc(LogOutput(t))

\* the calls alone, over a QueueMap that stays as it is
NextCalls == \E t \in Threads : choose(t)

SpecFair ==
    Init /\ [][NextCalls]_vars /\ \A t \in Threads : WF_pc(Runs(t)) /\ FairHandoff(t)

\* the same worker, with the sequential orders of its estimator updates
\* followed from the stored EstGpu
InitOrders ==
    /\ MiceInit({tau0}, {AllQueues}, {GpuReport}, {UsedStore})
    /\ est_orders = {[v |-> cmap["EstGpu"], done |-> {}]}
    /\ WRInit({<<>>})

SpecOrders == InitOrders /\ [][Next]_vars

\* a controller that has run through overloaded epochs before
InitWarm == InitWith(WarmTaus, {AllQueues}, {GpuReport}, {UsedStore})

SpecWarm == InitWarm /\ [][Next]_vars

\* ------------------------------------------------ one caller, no interleaving
\* what the GPU queue may report as its estimate
SeqReports == {GpuReport, [est |-> PInf, load |-> F(6)], [est |-> F(-2), load |-> F(6)]}

InitSeq == InitWith(WarmTaus \cup {tau0}, [Compute -> BOOLEAN], SeqReports,
                    {UsedStore, EmptyStore})

NextSeq ==
    \/ \E d \in Compute : SwitchQueue(d)
    \/ choose(1)

SpecSeq == InitSeq /\ [][NextSeq]_vars

\* ------------------------------------------- the estimator over all its inputs
\* statistics and raw estimates: not a number, infinite, negative, zero, positive
EstVals == {NaN, PInf, NInf, F(-10), F(0), F(20), F(50), F(60)}

InitEst ==
    InitWith({tau0}, [Compute -> BOOLEAN],
             [est : EstVals, load : {F(6)}],
             [EstGpu : EstVals, E2EGpu : EstVals, GpuExecTime : EstVals])

NextEst == GpuQueue(1) \/ CpuQueue(1) \/ EstGet(1) \/ EstUpdate(1)

SpecEst == InitEst /\ [][NextEst]_vars

\* ------------------------------------------------------------- Mice::new
\* the constructor that hands out a policy whether or not it got the clock
new_result_infallible(acquired) == Built

\* get_global_clock(tid)?: the policy, or the error when the clock is not
\* acquired
new_result(acquired) ==
    IF acquired THEN Built ELSE [NoPolicy EXCEPT !.res = "Err"]

\* MiceState { .. } over the reading clock.now() of the constructor
new_state(now) ==
    [tau |-> tau0, gpu_work |-> 0, cpu_work |-> 0, count |-> 0,
     last_update |-> now]

\* no policy is built yet; the global clock can be acquired or it cannot
InitNew ==
    /\ policy = NoPolicy
    /\ time_src \in BOOLEAN
    /\ clock \in 0 .. 1
    /\ tau = 0
    /\ gpu_work = 0
    /\ cpu_work = 0
    /\ count = 0
    /\ last_update = 0
    /\ lock = 0
    /\ que_map = AllQueues
    /\ que_est = [GPU |-> GpuReport, CPU |-> CpuReport]
    /\ switches = 0
    /\ cmap = UsedStore
    /\ pc = [t \in Threads |-> "idle"]
    /\ loc = [t \in Threads |-> LocInit]
    /\ epoch_log = NoEpoch
    /\ decided = 0
    /\ routed = NoWork
    /\ est_orders = {}
    /\ idle_exp = 0
    /\ WRInit({<<>>})

\* Mice::new
New ==
    /\ policy.res = "none"
    /\ policy' = new_result(time_src)
    /\ IF policy'.res = "Ok"
       THEN \E c \in clock .. MaxClock :
              LET st == new_state(c)
              IN  /\ clock' = c
                  /\ tau' = st.tau
                  /\ gpu_work' = st.gpu_work
                  /\ cpu_work' = st.cpu_work
                  /\ count' = st.count
                  /\ last_update' = st.last_update
       ELSE UNCHANGED <<mice_state, clock>>
    /\ UNCHANGED <<lock, que_map, que_est, switches, cmap, pc, loc, epoch_log,
                   decided, routed, est_orders, wr_vars, idle_exp, time_src>>

NextNew == New \/ NextCalls

SpecNew == InitNew /\ [][NextNew]_vars

\* ------------------------------------------- the close of an idle epoch
\* the longest idle epoch: 2^MaxIdleExp seconds
MaxIdleExp == 24

\* epochs of m jobs: the threshold they were routed under and their work in
\* tenths of a second by device. Jobs below the threshold went to the GPU:
\* all of them, none of them, or the short ones
IdleEpochs ==
    {[tau |-> tau0, gpu |-> 5, cpu |-> 0], [tau |-> tau0, gpu |-> 10, cpu |-> 0],
     [tau |-> tau0, gpu |-> 20, cpu |-> 0], [tau |-> tau0, gpu |-> 40, cpu |-> 0],
     [tau |-> 3, gpu |-> 0, cpu |-> 10], [tau |-> 0, gpu |-> 0, cpu |-> 20],
     [tau |-> 10, gpu |-> 5, cpu |-> 15], [tau |-> 20, gpu |-> 10, cpu |-> 30]}

\* thread 1 has counted the m-th job of an epoch that began 2^idle_exp
\* seconds before its now, and holds the state lock
InitIdle ==
    /\ \E w \in IdleEpochs :
         /\ tau = w.tau
         /\ gpu_work = w.gpu
         /\ cpu_work = w.cpu
         /\ routed = [gpu |-> w.gpu, cpu |-> w.cpu]
    /\ count = m
    /\ decided = m
    /\ last_update = 0
    /\ clock = 1
    /\ lock = 1
    /\ que_map = AllQueues
    /\ que_est = [GPU |-> GpuReport, CPU |-> CpuReport]
    /\ switches = 0
    /\ cmap = UsedStore
    /\ pc = [t \in Threads |-> IF t = 1 THEN "epoch" ELSE "idle"]
    /\ \E u \in {b \in BOOLEAN : (b => gpu_work > 0) /\ (~b => cpu_work > 0)} :
         loc = [t \in Threads |->
                  IF t = 1
                  THEN [LocInit EXCEPT !.now = clock, !.gpu_available = TRUE,
                                       !.use_gpu = u, !.tau_in = tau,
                                       !.gpu_est = GpuReport.est,
                                       !.gpu_load = GpuReport.load,
                                       !.cpu_est = CpuReport.est,
                                       !.cpu_load = CpuReport.load]
                  ELSE LocInit]
    /\ epoch_log = NoEpoch
    /\ est_orders = {}
    /\ idle_exp \in 2 .. MaxIdleExp
    /\ policy = Built
    /\ time_src = TRUE
    /\ WRInit({<<>>})

\* the end of an idle epoch, lines 192 to 230 in f64; the figures of the
\* MICE_EPOCH event are not kept
IdleClose(t) ==
    /\ pc[t] = "epoch"
    /\ epoch_ends(count, last_update, loc[t].now)
    /\ LET r == epoch_reset(count, loc[t].now)
       IN  /\ tau' = adjust_tau_f64(tau, gpu_work, cpu_work, idle_exp)
           /\ gpu_work' = r.gpu_work
           /\ cpu_work' = r.cpu_work
           /\ count' = r.count
           /\ last_update' = r.last_update
    /\ decided' = 0
    /\ routed' = NoWork
    /\ loc' = [loc EXCEPT ![t].closed = TRUE, ![t].now = 0,
                          ![t].ret = decision(loc[t])]
    /\ lock' = drop_st(t)
    /\ pc' = [pc EXCEPT ![t] = "log"]
    /\ UNCHANGED <<que_map, que_est, switches, cmap, clock, epoch_log, other_vars,
                   est_orders>>

NextIdle == IdleClose(1) \/ LogOutput(1)

SpecIdle == InitIdle /\ [][NextIdle]_vars

\* ------------------------------------------------- WeightedRandom::choose
\* .unwrap_or(0.85)
gpu_probability_default == 85

\* gpu_probability: the configured one, or the default when the
\* configuration has none
gpu_probability(cfg) == IF cfg = <<>> THEN gpu_probability_default ELSE cfg[1]

\* the configurations of the baseline: unset, never, half, always
WRConfigs == {<<>>, <<0>>, <<50>>, <<100>>}

\* values of rng.random_range(0.0..1.0)
Rolls == {0, 49, 50, 84, 85, 99}

\* the rule that sends a roll equal to the probability to the GPU
selected_inclusive(roll, p) == IF roll <= p THEN "GPU" ELSE "CPU"

\* selected = if roll < gpu_probability { GPU } else { CPU }
selected_of(roll, p) == IF roll < p THEN "GPU" ELSE "CPU"

\* PolymDispatchCtx::select_device_for_fn(fqdn, device, t)
select_device_for_fn(ctx, fqdn, device, t) ==
    [ctx EXCEPT ![fqdn] = [dev |-> device, t |-> t]]

\* a lock taken as a reader: it does not exclude another holder
wr_lock_as_reader(l) == TRUE

\* the write lock of dispatch_state is free
wr_lock_free(l) == l = 0

\* choose is entered for function f: the probability, the roll, the device
WRRoll(t, f) ==
    /\ wr_pc[t] = "idle"
    /\ \E roll \in Rolls :
         LET p == gpu_probability(wr_config)
         IN  wr_loc' = [wr_loc EXCEPT ![t] =
                 [fqdn |-> f, p |-> p, roll |-> roll,
                  selected |-> selected_of(roll, p), t |-> 0, ret |-> NoRet]]
    /\ wr_pc' = [wr_pc EXCEPT ![t] = "write"]
    /\ UNCHANGED <<mice_vars, clock, wr_config, dispatch_state, wr_lock, wr_last>>

\* lck = self.dispatch_state.write()
WRLock(t) ==
    /\ wr_pc[t] = "write"
    /\ wr_lock_free(wr_lock)
    /\ wr_lock' = t
    /\ wr_last' = [wr_last EXCEPT ![wr_loc[t].fqdn] =
                      [tid |-> t, dev |-> wr_loc[t].selected, t |-> 0]]
    /\ wr_pc' = [wr_pc EXCEPT ![t] = "held"]
    /\ UNCHANGED <<mice_vars, clock, wr_config, dispatch_state, wr_loc>>

\* lck.select_device_for_fn(&reg.fqdn, &selected, self.clock.now())
WRSelect(t) ==
    /\ wr_pc[t] = "held"
    /\ \E c \in clock .. MaxClock :
         /\ clock' = c
         /\ dispatch_state' = select_device_for_fn(dispatch_state, wr_loc[t].fqdn,
                                                   wr_loc[t].selected, c)
         /\ wr_loc' = [wr_loc EXCEPT ![t].t = c]
         /\ wr_last' = [f \in Fns |->
                           IF f = wr_loc[t].fqdn /\ wr_last[f].tid = t
                           THEN [wr_last[f] EXCEPT !.t = c] ELSE wr_last[f]]
    /\ wr_pc' = [wr_pc EXCEPT ![t] = "selected"]
    /\ UNCHANGED <<mice_vars, wr_config, wr_lock>>

\* choose returns (selected, NO_ESTIMATE, NO_ESTIMATE); lck is dropped
WRReturn(t) ==
    /\ wr_pc[t] = "selected"
    /\ wr_lock' = 0
    /\ wr_loc' = [wr_loc EXCEPT ![t].ret =
                     [dev |-> wr_loc[t].selected, load |-> NO_ESTIMATE,
                      est |-> NO_ESTIMATE]]
    /\ wr_pc' = [wr_pc EXCEPT ![t] = "idle"]
    /\ UNCHANGED <<mice_vars, clock, wr_config, dispatch_state, wr_last>>

wr_choose(t) ==
    \/ \E f \in Fns : WRRoll(t, f)
    \/ WRLock(t) \/ WRSelect(t) \/ WRReturn(t)

\* a worker that dispatches with the baseline
InitWR ==
    /\ MiceInit({tau0}, {AllQueues}, {GpuReport}, {UsedStore})
    /\ est_orders = {}
    /\ WRInit(WRConfigs)

NextWR == \E t \in Threads : wr_choose(t)

SpecWR == InitWR /\ [][NextWR]_vars

\* ================================================================== claims
\* a close was logged and its caller has not returned yet
EpochLogged == epoch_log.tid # 0

\* C1: the threshold is never negative, whatever the decisions, the job
\* sizes, the queue availability and the clock readings were.
C1_TauNonNegative == tau >= 0

\* an overloaded epoch is closed at threshold zero: the floor acts
C1_Witness ==
    /\ EpochLogged
    /\ epoch_log.tau_old = 0
    /\ epoch_log.tau_new = 0
    /\ ~RLt(epoch_log.rho_gpu, epoch_log.target_gpu)

C3_NoDoubleReset == EpochLogged => epoch_log.decided >= m

\* a call closed the epoch and another call with the same clock reading is in
\* the critical section right after it
C3_Witness ==
    \E t \in Threads, u \in Threads :
        /\ t # u
        /\ epoch_log.tid = t
        /\ pc[u] = "epoch"
        /\ loc[u].now = last_update
        /\ epoch_log.decided >= m

\* C4: the critical section of a decision is atomic: one call at a time is
\* between its routing decision and its release of the lock, the threshold it
\* routed against is the threshold still in force while it is there, and when
\* no call is inside every counted decision is in count.
InCritical(t) == pc[t] \in {"acc", "epoch"}

C4_Linearized ==
    /\ \A t \in Threads : InCritical(t) <=> lock = t
    /\ \A t \in Threads : InCritical(t) => loc[t].tau_in = tau
    /\ lock = 0 => count = decided

\* a call is inside the critical section while another one waits for the lock
C4_Witness ==
    \E t \in Threads, u \in Threads :
        /\ pc[t] = "epoch"
        /\ pc[u] = "lock"
        /\ count >= m

\* the call of thread t has selected its triple and has not returned yet
Returning(t) == pc[t] = "log"

\* C5: a call returns GPU exactly when the GPU queue was in the QueueMap at
\* its availability check and its job size is below the threshold it found
\* when it took the lock; without a GPU queue it returns CPU.
C5_RoutingDeterminism ==
    \A t \in Threads :
        Returning(t) =>
            /\ loc[t].ret.dev = "GPU" <=>
                   (loc[t].gpu_available /\ loc[t].size.v < loc[t].tau_in)
            /\ loc[t].ret.dev \in Compute
            /\ ~loc[t].gpu_available => loc[t].ret.dev = "CPU"

\* a job at or above the threshold goes to the CPU although the GPU is there
C5_Witness ==
    \E t \in Threads :
        /\ Returning(t)
        /\ loc[t].gpu_available
        /\ loc[t].size.v >= loc[t].tau_in
        /\ loc[t].ret.dev = "CPU"

\* rho_gpu < rho + alpha * rho^4 * (1 - rho), for work G on the GPU and C on
\* the CPU in the time n/d, cleared of its denominators:
\* 5 C d n^4 + 4 (W d)^4 (n - W d) > 0 with W = G + C
BelowTarget(G, C, n, d) ==
    LET W == (G + C) * d
    IN  5 * C * d * n * n * n * n + 4 * W * W * W * W * (n - W) > 0

\* the threshold the rule of C6 gives
RuleTau(t_old, G, C, n, d) ==
    IF BelowTarget(G, C, n, d) THEN t_old + epsilon
    ELSE IF t_old - epsilon >= 0 THEN t_old - epsilon ELSE 0

C7_MissingQueueDegradation ==
    /\ [](\A t \in Threads :
            (Returning(t) /\ ~loc[t].gpu_available) => loc[t].ret.dev = "CPU")
    /\ [][\A t \in Threads :
            ~loc[t].gpu_available =>
              /\ (pc[t] = "acc" /\ pc'[t] = "epoch") =>
                    /\ cpu_work' = cpu_work + loc[t].size.v
                    /\ gpu_work' = gpu_work
                    /\ count' = count + 1
              /\ (pc[t] = "epoch" /\ pc'[t] = "log") =>
                    IF count >= m /\ last_update < loc[t].now
                    THEN tau' = RuleTau(tau, gpu_work, cpu_work,
                                        TickLen * (loc[t].now - last_update), 1)
                    ELSE tau' = tau]_vars

\* the GPU entry was gone for the whole call of a job below the threshold,
\* and the call closed the epoch
C7_Witness ==
    \E t \in Threads :
        /\ pc[t] = "log"
        /\ loc[t].gpu_missing
        /\ ~loc[t].gpu_available
        /\ loc[t].size.v < loc[t].tau_in
        /\ loc[t].closed
        /\ cpu_work = 0

NoEstimateTriple == [dev |-> "CPU", load |-> NO_ESTIMATE, est |-> NO_ESTIMATE]

F64 == {NaN, PInf, NInf} \cup {F(n) : n \in -20 .. 20}

\* the call of thread t has a step to take
CanStep(t) ==
    \/ ENABLED (CpuQueue(t) \/ EstGet(t) \/ EstUpdate(t) \/ Now(t) \/ Lock(t)
                   \/ Accumulate(t) \/ EpochSkip(t) \/ LogOutput(t))
    \/ /\ pc[t] = "epoch"
       /\ epoch_ends(count, last_update, loc[t].now)
       /\ epoch_dt(loc[t].now, last_update)[1] > 0

\* C8: whatever queues are present and whatever the statistics and the raw
\* estimate are, a call never stops before it returns; what it returns is a
\* device with two numbers, decided on a finite positive job size; with
\* neither queue in the QueueMap it returns CPU with the sentinel for load and
\* completion.
C8_AlwaysDecides ==
    /\ pc[1] # "idle" => CanStep(1)
    /\ Returning(1) =>
         /\ loc[1].ret.dev \in Compute
         /\ loc[1].ret.load \in F64 /\ loc[1].ret.est \in F64
         /\ is_finite(loc[1].size) /\ loc[1].size.v > 0
         /\ (loc[1].gpu_missing /\ loc[1].cpu_missing /\ ~loc[1].gpu_available)
               => loc[1].ret = NoEstimateTriple

\* a call made while both queues are missing, for a function the store has no
\* record of, returns on the fallback job size
C8_Witness ==
    /\ Returning(1)
    /\ loc[1].gpu_missing /\ loc[1].cpu_missing /\ ~loc[1].gpu_available
    /\ loc[1].ret = NoEstimateTriple
    /\ loc[1].size = F(fallback)

\* finite and > 0, written out
Usable(x) == x.k = "fin" /\ x.v >= 1

\* the estimator of thread 1 has run: its inputs and results are in loc[1]
Estimated == pc[1] = "now"

\* C9: the job size is xhat when xhat is finite and > 0, else the average
\* GpuExecTime when that is finite and > 0, else 1.0; it is always finite and
\* > 0.
C9_JobSize ==
    Estimated =>
        LET x == loc[1].xhat
            a == cmap["GpuExecTime"]
            s == loc[1].size
        IN  /\ Usable(x) => s = x
            /\ (~Usable(x) /\ Usable(a)) => s = a
            /\ (~Usable(x) /\ ~Usable(a)) => s = F(10)
            /\ Usable(s)

\* neither the filtered estimate nor the recorded average is usable
C9_Witness ==
    /\ Estimated
    /\ loc[1].xhat.k = "nan"
    /\ cmap["GpuExecTime"] = F(0)
    /\ loc[1].size = F(10)

\* max(rawEst, 0) as f64::max gives it
RawFloor(raw) ==
    IF raw.k = "fin" /\ raw.v > 0 THEN raw
    ELSE IF raw = PInf THEN PInf ELSE F(0)

Repaired(prev, raw) == IF Usable(prev) THEN prev ELSE RawFloor(raw)

\* C10: get_gpu_est repairs prevEst and prevE2E by max(rawEst, 0), observes
\* rawEst if usable and the repaired prevEst if not, and with
\* z = prevE2E - prevEst returns xhat = 0.1 prevEst + 0.7 obs + 0.2 z, which
\* it also writes to the store; (5, 6, 5) gives z = 1 and xhat = 4.2.
C10_Estimator ==
    Estimated =>
        LET raw == loc[1].gpu_est
            pe == Repaired(loc[1].prev_est_raw, raw)
            pe2e == Repaired(loc[1].prev_e2e_raw, raw)
            obs == IF Usable(raw) THEN raw ELSE pe
            x == loc[1].xhat
            z == loc[1].z
        IN  /\ cmap["EstGpu"] = x
            /\ (pe.k = "fin" /\ pe2e.k = "fin") =>
                  /\ z = F(pe2e.v - pe.v)
                  /\ x.k = "fin"
                  /\ 10 * x.v = pe.v + 7 * obs.v + 2 * z.v
            /\ (pe.k = "fin" /\ pe2e = PInf) => (z = PInf /\ x = PInf)
            /\ pe = PInf => (z.k # "fin" /\ x = NaN)
            /\ (loc[1].prev_est_raw = F(50) /\ loc[1].prev_e2e_raw = F(60)
                  /\ raw = F(50)) => (obs = F(50) /\ z = F(10) /\ x = F(42))

\* the numeric example of the estimator
C10_Witness ==
    /\ Estimated
    /\ loc[1].prev_est_raw = F(50)
    /\ loc[1].prev_e2e_raw = F(60)
    /\ loc[1].gpu_est = F(50)
    /\ loc[1].xhat = F(42)
    /\ cmap["EstGpu"] = F(42)

\* the last call of thread t to the baseline has returned
WRReturned(t) == wr_pc[t] = "idle" /\ wr_loc[t].ret.dev # "none"

\* C11: WeightedRandom.choose returns GPU exactly when its roll in [0, 1) is
\* below p, the configured gpu_probability or 0.85 when none is configured;
\* with p = 1.0 it returns GPU, with p = 0.0 CPU; load and completion are
\* the no-estimate sentinel.
C11_WeightedRandomRule ==
    \A t \in Threads :
        WRReturned(t) =>
            LET p == IF wr_config = <<>> THEN 85 ELSE wr_config[1]
                r == wr_loc[t].ret
            IN  /\ wr_loc[t].roll \in 0 .. 99
                /\ r.dev = "GPU" <=> wr_loc[t].roll < p
                /\ r.dev = "CPU" <=> wr_loc[t].roll >= p
                /\ p = 100 => r.dev = "GPU"
                /\ p = 0 => r.dev = "CPU"
                /\ r.load = NO_ESTIMATE /\ r.est = NO_ESTIMATE

\* without a configured probability a roll of 0.84 goes to the GPU and one of
\* 0.85 to the CPU
C11_Witness ==
    /\ wr_config = <<>>
    /\ WRReturned(1) /\ wr_loc[1].roll = 84 /\ wr_loc[1].ret.dev = "GPU"
    /\ WRReturned(2) /\ wr_loc[2].roll = 85 /\ wr_loc[2].ret.dev = "CPU"

\* C12: the entry of a function is what the last write for it stored and
\* changes only by a write for that function made under the write lock; after
\* any interleaving of calls of WeightedRandom.choose the entry of f holds the
\* device and the timestamp of the call for f that took the write lock last,
\* and that device is the one the call returned.
C12_ContextConsistency ==
    /\ [](wr_lock = 0 =>
            \A f \in Fns :
                IF wr_last[f].tid = 0 THEN dispatch_state[f] = NoEntry
                ELSE dispatch_state[f] = [dev |-> wr_last[f].dev, t |-> wr_last[f].t])
    /\ [](\A t \in Threads :
            (WRReturned(t) /\ wr_last[wr_loc[t].fqdn].tid = t) =>
                /\ wr_loc[t].ret.dev = dispatch_state[wr_loc[t].fqdn].dev
                /\ wr_loc[t].t = dispatch_state[wr_loc[t].fqdn].t)
    /\ [][\A f \in Fns :
            dispatch_state'[f] # dispatch_state[f] =>
                \E t \in Threads :
                    /\ wr_lock = t /\ wr_pc[t] = "held" /\ wr_loc[t].fqdn = f
                    /\ dispatch_state'[f].dev = wr_loc[t].selected]_vars

\* two calls for f chose different devices at different times; the entry of f
\* is the one of the later writer and the entry of g is untouched
C12_Witness ==
    /\ wr_lock = 0
    /\ WRReturned(1) /\ WRReturned(2)
    /\ wr_loc[1].fqdn = "f" /\ wr_loc[2].fqdn = "f"
    /\ wr_loc[1].ret.dev # wr_loc[2].ret.dev
    /\ wr_loc[1].t < wr_loc[2].t
    /\ wr_last["f"].tid = 2
    /\ dispatch_state["f"] = [dev |-> wr_loc[2].ret.dev, t |-> wr_loc[2].t]
    /\ dispatch_state["g"] = NoEntry

C14_EstimatesOfChosenDevice ==
    \A t \in Threads :
        Returning(t) =>
            /\ loc[t].ret.dev = "GPU" =>
                  /\ ~loc[t].gpu_missing
                  /\ loc[t].ret.load = que_est["GPU"].load
                  /\ loc[t].ret.est = que_est["GPU"].est
            /\ loc[t].ret.dev = "CPU" =>
                  IF loc[t].cpu_missing
                  THEN loc[t].ret.load = NO_ESTIMATE /\ loc[t].ret.est = NO_ESTIMATE
                  ELSE /\ loc[t].ret.load = que_est["CPU"].load
                       /\ loc[t].ret.est = que_est["CPU"].est

\* C15: count is the number of decisions made since the last reset of the
\* epoch (or since construction), gpu_work the sum of the job sizes of those
\* routed to the GPU and cpu_work of those routed to the CPU, in every state
\* but the one between a decision and its own update of the counters; so
\* gpu_work >= 0, cpu_work >= 0, and gpu_work + cpu_work > 0 when count > 0.
C15_AccumulatorConservation ==
    /\ (\A t \in Threads : pc[t] # "acc") =>
          /\ count = decided
          /\ gpu_work = routed.gpu
          /\ cpu_work = routed.cpu
    /\ count >= 0 /\ gpu_work >= 0 /\ cpu_work >= 0
    /\ count > 0 => gpu_work + cpu_work > 0
    /\ count = 0 => gpu_work + cpu_work = 0

\* an epoch that has work on both devices
C15_Witness ==
    /\ lock = 0
    /\ count = m
    /\ gpu_work > 0 /\ cpu_work > 0
    /\ routed = [gpu |-> gpu_work, cpu |-> cpu_work]

\* C16: last_update never decreases and strictly increases at every close,
\* where the elapsed time dt is the strictly positive time from the old
\* last_update to the caller's now; also when a call that sampled an older now
\* enters the critical section after a close made with a newer one.
C16_LastUpdateMonotone ==
    [][/\ last_update' >= last_update
       /\ \A t \in Threads :
            (pc[t] = "epoch" /\ pc'[t] = "log" /\ loc'[t].closed) =>
                /\ last_update' > last_update
                /\ last_update' = loc[t].now
                /\ epoch_log'.dt[1] > 0 /\ epoch_log'.dt[2] > 0
                /\ epoch_log'.dt[1] = TickLen * (last_update' - last_update) * epoch_log'.dt[2]
       /\ \A t \in Threads :
            (pc[t] = "epoch" /\ loc[t].now <= last_update) =>
                last_update' = last_update]_vars

\* a call that sampled its now before the last close is in the critical
\* section with a full count
C16_Witness ==
    \E t \in Threads :
        /\ pc[t] = "epoch"
        /\ loc[t].now < last_update
        /\ count >= m

\* C17: at every close of an epoch whose load (gpu_work + cpu_work) / dt is
\* below 1 the threshold grows by epsilon, however the work was split; no
\* such close lowers it.
C17_UnderLoadRaises ==
    [][\A t \in Threads :
         (/\ pc[t] = "epoch" /\ pc'[t] = "log" /\ loc'[t].closed
          /\ gpu_work + cpu_work < 10 * 2^idle_exp)
         => tau' = tau + epsilon]_vars

\* C18: the paired read and the write of each call's get_gpu_est behave as one
\* atomic step: whenever no call is between its read and its write, the stored
\* EstGpu is what the estimator updates of the calls so far give in some
\* sequential order.
C18_EstimatorAtomic ==
    (Pending = {} /\ est_orders # {}) => cmap["EstGpu"] \in {c.v : c \in est_orders}

\* C19: under fair handoff of the state lock every started call returns; no
\* thread waits for the state lock while it holds it, and whenever all threads
\* wait for the lock it is free.
WaitsForLock(t) == pc[t] \in {"lock", "log"}

C19_EveryCallCompletes ==
    /\ [](\A t \in Threads : WaitsForLock(t) => lock # t)
    /\ []((\A t \in Threads : WaitsForLock(t)) => lock = 0)
    /\ \A t \in Threads : (pc[t] # "idle") ~> (pc[t] = "idle")

C19_Witness == \E t \in Threads : pc[t] = "log" /\ lock \in Threads \ {t}

\* C20: Mice::new fails exactly when the clock cannot be acquired, and then
\* there is no policy and no call; when it succeeds the state is tau = 10.0,
\* gpu_work = cpu_work = 0, count = 0 and last_update = the clock reading of
\* the constructor, with m = 100, epsilon = 0.1 and alpha = 0.8, and nothing
\* changes these constants or the result afterwards.
C20_Construction ==
    /\ [](policy.res = "Err" <=> (policy.res # "none" /\ ~time_src))
    /\ [](policy.res = "Ok" <=> (policy.res # "none" /\ time_src))
    /\ [](policy.res # "Ok" =>
            /\ \A t \in Threads : pc[t] = "idle"
            /\ lock = 0
            /\ policy.m = 0
            /\ <<tau, gpu_work, cpu_work, count, last_update>> = <<0, 0, 0, 0, 0>>)
    /\ [][(policy.res = "none" /\ policy'.res = "Ok") =>
            /\ tau' = 100
            /\ gpu_work' = 0 /\ cpu_work' = 0 /\ count' = 0
            /\ last_update' = clock'
            /\ policy'.m = 100 /\ policy'.epsilon = 1 /\ policy'.alpha = <<4, 5>>]_vars
    /\ [][policy.res # "none" => policy' = policy]_vars
    /\ [][time_src' = time_src]_vars

C20_Witness == policy.res = "Ok" /\ last_update > 0 /\ tau # tau0

====
